---------------------------- MODULE Spec2Model ----------------------------
(***************************************************************************)
(* Model of custom_components/cync_lights/light.py: the platform setup     *)
(* (async_setup_entry) and the two light adapters CyncRoomEntity and       *)
(* CyncSwitchEntity that project a hub's room / switch objects onto the    *)
(* host's light-entity contract.                                           *)
(*                                                                         *)
(* Python values are modelled as follows.                                  *)
(*   None / Optional[T]   the empty sequence <<>> / a one-element sequence *)
(*   **kwargs             a function whose DOMAIN is the set of supplied   *)
(*                        attribute names                                  *)
(*   round(x)             round-half-to-even on the exact quotient; the    *)
(*                        float quotients of the source are either exact   *)
(*                        ties (n + 0.5 is representable) or at least 1/100*)
(*                        away from a tie, so the exact and the float      *)
(*                        rounding agree on every value used here          *)
(***************************************************************************)
EXTENDS Integers, Sequences, FiniteSets, TLC

VARIABLES
    cync_rooms,     \* hub.cync_rooms: room key -> backing room object
    cync_switches,  \* hub.cync_switches: switch id -> backing switch object
    options,        \* config_entry.options: rooms / subgroups / switches
    entities,       \* adapter objects constructed so far, by identity
    service_call,   \* the host's light service call being dispatched (<= 1)
    calls           \* calls the adapters made on backing devices

vars == <<cync_rooms, cync_switches, options, entities, service_call, calls>>

---------------------------------------------------------------------------
\* Bounds of the model.

MaxEntities == 3      \* adapter objects constructed in one run
MaxKelvin == 9000     \* largest color_temp_kelvin the host supplies

---------------------------------------------------------------------------
\* Program constants.

DeviceScaleMax == 100   \* device scale of brightness / color_temp
HostScaleMax == 255     \* host scale of brightness

None == <<>>
Some(v) == <<v>>

ATTR_RGB_COLOR == "rgb_color"
ATTR_BRIGHTNESS == "brightness"
ATTR_COLOR_TEMP_KELVIN == "color_temp_kelvin"

ColorMode_RGB == "rgb"
ColorMode_COLOR_TEMP == "color_temp"
ColorMode_BRIGHTNESS == "brightness"
ColorMode_ONOFF == "onoff"

RoomKeys == <<"r1">>      \* iteration order of hub.cync_rooms
SwitchKeys == <<"s1">>    \* iteration order of hub.cync_switches

Range(s) == {s[i] : i \in DOMAIN s}

\* dict.get(key) with the default None
Get(kwargs, key) == IF key \in DOMAIN kwargs THEN Some(kwargs[key]) ELSE None

\* Python's round() of the quotient num / den (den > 0): half to even
Round(num, den) ==
    LET q == num \div den
        r == num % den
    IN  IF 2 * r < den THEN q
        ELSE IF 2 * r > den THEN q + 1
        ELSE IF q % 2 = 0 THEN q ELSE q + 1

Min2(a, b) == IF a <= b THEN a ELSE b
Max2(a, b) == IF a >= b THEN a ELSE b

---------------------------------------------------------------------------
\* CyncRoomEntity

CyncRoomEntity_min_color_temp_kelvin == 2000
CyncRoomEntity_max_color_temp_kelvin == 6500

CyncRoomEntity_is_on(self) == cync_rooms[self.room].power_state

\* the device-scale value returned unscaled
CyncRoomEntity_brightness_raw(self) == cync_rooms[self.room].brightness

\* round(self.room.brightness * 255 / 100)
CyncRoomEntity_brightness(self) ==
    Round(cync_rooms[self.room].brightness * 255, 100)

\* the Kelvin window applied without its lower end
CyncRoomEntity_color_temp_kelvin_offset(self) ==
    IF ~cync_rooms[self.room].support_color_temp THEN None
    ELSE Some(Round((CyncRoomEntity_max_color_temp_kelvin
                       - CyncRoomEntity_min_color_temp_kelvin)
                    * cync_rooms[self.room].color_temp, 100))

CyncRoomEntity_color_temp_kelvin(self) ==
    IF ~cync_rooms[self.room].support_color_temp THEN None
    ELSE Some(Round(CyncRoomEntity_min_color_temp_kelvin * 100
                    + (CyncRoomEntity_max_color_temp_kelvin
                       - CyncRoomEntity_min_color_temp_kelvin)
                      * cync_rooms[self.room].color_temp,
                    100))

CyncRoomEntity_rgb_color(self) ==
    IF ~cync_rooms[self.room].support_rgb THEN None
    ELSE Some(<<cync_rooms[self.room].rgb["r"],
                cync_rooms[self.room].rgb["g"],
                cync_rooms[self.room].rgb["b"]>>)

\* BRIGHTNESS added without the "not modes" test
CyncRoomEntity_get_supported_color_modes_additive(room) ==
    (IF room.support_rgb THEN {ColorMode_RGB} ELSE {})
    \cup (IF room.support_color_temp THEN {ColorMode_COLOR_TEMP} ELSE {})
    \cup (IF room.support_brightness THEN {ColorMode_BRIGHTNESS} ELSE {})

\* _get_supported_color_modes, evaluated on the backing room object
CyncRoomEntity_get_supported_color_modes(room) ==
    LET m1 == IF room.support_rgb THEN {ColorMode_RGB} ELSE {}
        m2 == IF room.support_color_temp
              THEN m1 \cup {ColorMode_COLOR_TEMP} ELSE m1
        m3 == IF m2 = {} /\ room.support_brightness
              THEN m2 \cup {ColorMode_BRIGHTNESS} ELSE m2
    IN  IF m3 = {} THEN m3 \cup {ColorMode_ONOFF} ELSE m3

\* the inherited supported_color_modes property returns the attribute that
\* __init__ stored
CyncRoomEntity_supported_color_modes(self) == self.attr_supported_color_modes

\* the mode resolved without the is_on test
CyncRoomEntity_color_mode_ignores_power(self) ==
    LET room == cync_rooms[self.room]
    IN  IF room.support_color_temp
        THEN IF room.support_rgb
                /\ (IF "active" \in DOMAIN room.rgb THEN room.rgb["active"] ELSE FALSE)
             THEN Some(ColorMode_RGB)
             ELSE Some(ColorMode_COLOR_TEMP)
        ELSE IF room.support_brightness THEN Some(ColorMode_BRIGHTNESS)
        ELSE Some(ColorMode_ONOFF)

CyncRoomEntity_color_mode(self) ==
    LET room == cync_rooms[self.room]
    IN  IF ~CyncRoomEntity_is_on(self) THEN None
        ELSE IF room.support_color_temp
        THEN IF room.support_rgb
                /\ (IF "active" \in DOMAIN room.rgb THEN room.rgb["active"] ELSE FALSE)
             THEN Some(ColorMode_RGB)
             ELSE Some(ColorMode_COLOR_TEMP)
        ELSE IF room.support_brightness THEN Some(ColorMode_BRIGHTNESS)
        ELSE Some(ColorMode_ONOFF)

\* the conversion without max(0, min(100, .))
CyncRoomEntity_kelvin_to_percent_unclamped(kelvin) ==
    Round(100 * (kelvin - CyncRoomEntity_min_color_temp_kelvin),
          CyncRoomEntity_max_color_temp_kelvin - CyncRoomEntity_min_color_temp_kelvin)

\* percent = 100 * (kelvin - min_k) / (max_k - min_k) is kept as the exact
\* fraction num / den; max(0, min(100, percent)) clamps the numerator
CyncRoomEntity_kelvin_to_percent(kelvin) ==
    LET min_k == CyncRoomEntity_min_color_temp_kelvin
        max_k == CyncRoomEntity_max_color_temp_kelvin
        num == 100 * (kelvin - min_k)
        den == max_k - min_k
    IN  Round(Max2(0, Min2(100 * den, num)), den)

---------------------------------------------------------------------------
\* CyncSwitchEntity

CyncSwitchEntity_min_color_temp_kelvin == 2000
CyncSwitchEntity_max_color_temp_kelvin == 6500

CyncSwitchEntity_is_on(self) == cync_switches[self.cync_switch].power_state

\* round(self.cync_switch.brightness * 255 / 100)
CyncSwitchEntity_brightness(self) ==
    Round(cync_switches[self.cync_switch].brightness * 255, 100)

CyncSwitchEntity_color_temp_kelvin(self) ==
    IF ~cync_switches[self.cync_switch].support_color_temp THEN None
    ELSE Some(Round(CyncSwitchEntity_min_color_temp_kelvin * 100
                    + (CyncSwitchEntity_max_color_temp_kelvin
                       - CyncSwitchEntity_min_color_temp_kelvin)
                      * cync_switches[self.cync_switch].color_temp,
                    100))

CyncSwitchEntity_rgb_color(self) ==
    IF ~cync_switches[self.cync_switch].support_rgb THEN None
    ELSE Some(<<cync_switches[self.cync_switch].rgb["r"],
                cync_switches[self.cync_switch].rgb["g"],
                cync_switches[self.cync_switch].rgb["b"]>>)

\* _get_supported_color_modes, evaluated on the backing switch object
CyncSwitchEntity_get_supported_color_modes(cync_switch) ==
    LET m1 == IF cync_switch.support_rgb THEN {ColorMode_RGB} ELSE {}
        m2 == IF cync_switch.support_color_temp
              THEN m1 \cup {ColorMode_COLOR_TEMP} ELSE m1
        m3 == IF m2 = {} /\ cync_switch.support_brightness
              THEN m2 \cup {ColorMode_BRIGHTNESS} ELSE m2
    IN  IF m3 = {} THEN m3 \cup {ColorMode_ONOFF} ELSE m3

\* the inherited supported_color_modes property returns the attribute that
\* __init__ stored
CyncSwitchEntity_supported_color_modes(self) == self.attr_supported_color_modes

CyncSwitchEntity_color_mode(self) ==
    LET cync_switch == cync_switches[self.cync_switch]
    IN  IF ~CyncSwitchEntity_is_on(self) THEN None
        ELSE IF cync_switch.support_color_temp
        THEN IF cync_switch.support_rgb
                /\ (IF "active" \in DOMAIN cync_switch.rgb THEN cync_switch.rgb["active"] ELSE FALSE)
             THEN Some(ColorMode_RGB)
             ELSE Some(ColorMode_COLOR_TEMP)
        ELSE IF cync_switch.support_brightness THEN Some(ColorMode_BRIGHTNESS)
        ELSE Some(ColorMode_ONOFF)

\* percent = 100 * (kelvin - min_k) / (max_k - min_k) is kept as the exact
\* fraction num / den; max(0, min(100, percent)) clamps the numerator
CyncSwitchEntity_kelvin_to_percent(kelvin) ==
    LET min_k == CyncSwitchEntity_min_color_temp_kelvin
        max_k == CyncSwitchEntity_max_color_temp_kelvin
        num == 100 * (kelvin - min_k)
        den == max_k - min_k
    IN  Round(Max2(0, Min2(100 * den, num)), den)

---------------------------------------------------------------------------
\* Command methods: the calls an adapter makes on its backing device.

\* kwargs[ATTR_BRIGHTNESS] in place of kwargs.get(ATTR_BRIGHTNESS): a
\* KeyError ends the handler before the device is called
CyncRoomEntity_async_turn_on_calls_indexing(self, kwargs) ==
    LET ct_kelvin == Get(kwargs, ATTR_COLOR_TEMP_KELVIN)
        ct_percent == IF ct_kelvin # None
                      THEN Some(CyncRoomEntity_kelvin_to_percent(ct_kelvin[1]))
                      ELSE None
    IN  IF ATTR_BRIGHTNESS \notin DOMAIN kwargs THEN <<>>
        ELSE << [target |-> <<"room", self.room>>,
                 method |-> "turn_on",
                 args   |-> <<Get(kwargs, ATTR_RGB_COLOR),
                              Some(kwargs[ATTR_BRIGHTNESS]),
                              ct_percent>>] >>

\* async_turn_on: one awaited self.room.turn_on(rgb, brightness, ct_percent)
CyncRoomEntity_async_turn_on_calls(self, kwargs) ==
    LET ct_kelvin == Get(kwargs, ATTR_COLOR_TEMP_KELVIN)
        ct_percent == IF ct_kelvin # None
                      THEN Some(CyncRoomEntity_kelvin_to_percent(ct_kelvin[1]))
                      ELSE None
    IN  << [target |-> <<"room", self.room>>,
            method |-> "turn_on",
            args   |-> <<Get(kwargs, ATTR_RGB_COLOR),
                         Get(kwargs, ATTR_BRIGHTNESS),
                         ct_percent>>] >>

\* async_turn_off: one awaited self.room.turn_off()
CyncRoomEntity_async_turn_off_calls(self) ==
    << [target |-> <<"room", self.room>>, method |-> "turn_off", args |-> <<>>] >>

\* async_turn_on: one awaited self.cync_switch.turn_on(rgb, brightness, ct_percent)
CyncSwitchEntity_async_turn_on_calls(self, kwargs) ==
    LET ct_kelvin == Get(kwargs, ATTR_COLOR_TEMP_KELVIN)
        ct_percent == IF ct_kelvin # None
                      THEN Some(CyncSwitchEntity_kelvin_to_percent(ct_kelvin[1]))
                      ELSE None
    IN  << [target |-> <<"switch", self.cync_switch>>,
            method |-> "turn_on",
            args   |-> <<Get(kwargs, ATTR_RGB_COLOR),
                         Get(kwargs, ATTR_BRIGHTNESS),
                         ct_percent>>] >>

\* async_turn_off: one awaited self.cync_switch.turn_off()
CyncSwitchEntity_async_turn_off_calls(self) ==
    << [target |-> <<"switch", self.cync_switch>>, method |-> "turn_off",
        args |-> <<>>] >>

---------------------------------------------------------------------------
\* The host's view of an adapter: the light-entity property surface,
\* dispatched on the adapter's class.

IsRoomEntity(self) == self.class = "CyncRoomEntity"

is_on(self) ==
    IF IsRoomEntity(self) THEN CyncRoomEntity_is_on(self)
    ELSE CyncSwitchEntity_is_on(self)

brightness(self) ==
    IF IsRoomEntity(self) THEN CyncRoomEntity_brightness(self)
    ELSE CyncSwitchEntity_brightness(self)

color_temp_kelvin(self) ==
    IF IsRoomEntity(self) THEN CyncRoomEntity_color_temp_kelvin(self)
    ELSE CyncSwitchEntity_color_temp_kelvin(self)

rgb_color(self) ==
    IF IsRoomEntity(self) THEN CyncRoomEntity_rgb_color(self)
    ELSE CyncSwitchEntity_rgb_color(self)

color_mode(self) ==
    IF IsRoomEntity(self) THEN CyncRoomEntity_color_mode(self)
    ELSE CyncSwitchEntity_color_mode(self)

supported_color_modes(self) ==
    IF IsRoomEntity(self) THEN CyncRoomEntity_supported_color_modes(self)
    ELSE CyncSwitchEntity_supported_color_modes(self)

\* the backing device object an adapter holds (self.room / self.cync_switch)
Backing(self) ==
    IF IsRoomEntity(self) THEN cync_rooms[self.room]
    ELSE cync_switches[self.cync_switch]

SameDevice(a, b) ==
    /\ a.class = b.class
    /\ IF IsRoomEntity(a) THEN a.room = b.room ELSE a.cync_switch = b.cync_switch

---------------------------------------------------------------------------
\* The backing device objects (the hub's rooms and switches).

\* register(callback) stores the callback on the device
Device_register(dev, callback) == [dev EXCEPT !.update_callback = Some(callback)]

\* reset() clears the registered callback
Device_reset(dev) == [dev EXCEPT !.update_callback = None]

LevelSamples == {0, 10, 50, DeviceScaleMax}

RgbStates ==
    {[r |-> 255, g |-> 128, b |-> 0]}
    \cup {[r |-> c[1], g |-> c[2], b |-> c[3], active |-> a] :
            c \in {<<255, 128, 0>>, <<0, 0, 64>>}, a \in BOOLEAN}

DefaultRoom ==
    [power_state |-> FALSE, brightness |-> 0, color_temp |-> 0,
     rgb |-> [r |-> 0, g |-> 0, b |-> 64, active |-> FALSE],
     support_rgb |-> TRUE, support_color_temp |-> TRUE,
     support_brightness |-> TRUE, update_callback |-> None]

DefaultSwitch ==
    [power_state |-> FALSE, brightness |-> 0, color_temp |-> 0,
     rgb |-> [r |-> 0, g |-> 0, b |-> 64, active |-> FALSE],
     support_rgb |-> TRUE, support_color_temp |-> TRUE,
     support_brightness |-> TRUE, update_callback |-> None,
     plug |-> FALSE, fan |-> FALSE]

\* every status a device can report
DeviceStatus(dev) ==
    {[dev EXCEPT !.power_state = p, !.brightness = br, !.color_temp = ct,
                 !.rgb = rgb, !.support_rgb = f[1], !.support_color_temp = f[2],
                 !.support_brightness = f[3]] :
        p \in BOOLEAN, br \in LevelSamples, ct \in LevelSamples,
        rgb \in RgbStates, f \in BOOLEAN \X BOOLEAN \X BOOLEAN}

---------------------------------------------------------------------------
\* Adapter construction and platform setup.

\* CyncRoomEntity.__init__
CyncRoomEntity_init(room) ==
    [class |-> "CyncRoomEntity", room |-> room, status |-> "created",
     attr_supported_color_modes |->
        CyncRoomEntity_get_supported_color_modes(cync_rooms[room])]

\* CyncSwitchEntity.__init__
CyncSwitchEntity_init(cync_switch) ==
    [class |-> "CyncSwitchEntity", cync_switch |-> cync_switch,
     status |-> "created",
     attr_supported_color_modes |->
        CyncSwitchEntity_get_supported_color_modes(cync_switches[cync_switch])]

\* the first loop without the _update_callback test
RoomSelectedAlways(room) ==
    /\ room \in DOMAIN cync_rooms
    /\ (room \in options.rooms \/ room \in options.subgroups)

\* the condition of the first loop of async_setup_entry
RoomSelected(room) ==
    /\ room \in DOMAIN cync_rooms
    /\ cync_rooms[room].update_callback = None
    /\ (room \in options.rooms \/ room \in options.subgroups)

\* the condition of the second loop of async_setup_entry
SwitchSelected(switch_id) ==
    /\ switch_id \in DOMAIN cync_switches
    /\ cync_switches[switch_id].update_callback = None
    /\ ~cync_switches[switch_id].plug
    /\ ~cync_switches[switch_id].fan
    /\ switch_id \in options.switches

\* the list async_setup_entry hands to async_add_entities
new_devices ==
    LET rooms == SelectSeq(RoomKeys, RoomSelected)
        switches == SelectSeq(SwitchKeys, SwitchSelected)
    IN  [i \in 1..Len(rooms) |-> CyncRoomEntity_init(rooms[i])]
        \o [i \in 1..Len(switches) |-> CyncSwitchEntity_init(switches[i])]

async_setup_entry ==
    /\ Len(entities) + Len(new_devices) <= MaxEntities
    /\ entities' = entities \o new_devices
    /\ UNCHANGED <<cync_rooms, cync_switches, options, service_call, calls>>

\* the host adds the entity: CyncRoomEntity.async_added_to_hass registers
\* the adapter's schedule_update_ha_state with the room
CyncRoomEntity_async_added_to_hass(id) ==
    /\ id \in DOMAIN entities
    /\ IsRoomEntity(entities[id])
    /\ entities[id].status = "created"
    /\ entities' = [entities EXCEPT ![id].status = "added"]
    /\ cync_rooms' = [cync_rooms EXCEPT ![entities[id].room] =
                        Device_register(@, id)]
    /\ UNCHANGED <<cync_switches, options, service_call, calls>>

\* the host removes the entity: CyncRoomEntity.async_will_remove_from_hass
CyncRoomEntity_async_will_remove_from_hass(id) ==
    /\ id \in DOMAIN entities
    /\ IsRoomEntity(entities[id])
    /\ entities[id].status = "added"
    /\ entities' = [entities EXCEPT ![id].status = "removed"]
    /\ cync_rooms' = [cync_rooms EXCEPT ![entities[id].room] = Device_reset(@)]
    /\ UNCHANGED <<cync_switches, options, service_call, calls>>

CyncSwitchEntity_async_added_to_hass(id) ==
    /\ id \in DOMAIN entities
    /\ ~IsRoomEntity(entities[id])
    /\ entities[id].status = "created"
    /\ entities' = [entities EXCEPT ![id].status = "added"]
    /\ cync_switches' = [cync_switches EXCEPT ![entities[id].cync_switch] =
                            Device_register(@, id)]
    /\ UNCHANGED <<cync_rooms, options, service_call, calls>>

CyncSwitchEntity_async_will_remove_from_hass(id) ==
    /\ id \in DOMAIN entities
    /\ ~IsRoomEntity(entities[id])
    /\ entities[id].status = "added"
    /\ entities' = [entities EXCEPT ![id].status = "removed"]
    /\ cync_switches' = [cync_switches EXCEPT ![entities[id].cync_switch] =
                            Device_reset(@)]
    /\ UNCHANGED <<cync_rooms, options, service_call, calls>>

---------------------------------------------------------------------------
\* Service calls: the host dispatches turn_on(**kwargs) / turn_off() to an
\* entity it has added.

Dispatched(id, service) ==
    /\ id \in DOMAIN entities
    /\ entities[id].status = "added"
    /\ Len(service_call) = 1
    /\ ~service_call[1].done
    /\ service_call[1].service = service
    /\ service_call[1].entity = id

CyncRoomEntity_async_turn_on(id) ==
    /\ Dispatched(id, "turn_on")
    /\ IsRoomEntity(entities[id])
    /\ calls' = calls \o CyncRoomEntity_async_turn_on_calls(
                            entities[id], service_call[1].kwargs)
    /\ service_call' = [service_call EXCEPT ![1].done = TRUE]
    /\ UNCHANGED <<cync_rooms, cync_switches, options, entities>>

CyncRoomEntity_async_turn_off(id) ==
    /\ Dispatched(id, "turn_off")
    /\ IsRoomEntity(entities[id])
    /\ calls' = calls \o CyncRoomEntity_async_turn_off_calls(entities[id])
    /\ service_call' = [service_call EXCEPT ![1].done = TRUE]
    /\ UNCHANGED <<cync_rooms, cync_switches, options, entities>>

CyncSwitchEntity_async_turn_on(id) ==
    /\ Dispatched(id, "turn_on")
    /\ ~IsRoomEntity(entities[id])
    /\ calls' = calls \o CyncSwitchEntity_async_turn_on_calls(
                            entities[id], service_call[1].kwargs)
    /\ service_call' = [service_call EXCEPT ![1].done = TRUE]
    /\ UNCHANGED <<cync_rooms, cync_switches, options, entities>>

CyncSwitchEntity_async_turn_off(id) ==
    /\ Dispatched(id, "turn_off")
    /\ ~IsRoomEntity(entities[id])
    /\ calls' = calls \o CyncSwitchEntity_async_turn_off_calls(entities[id])
    /\ service_call' = [service_call EXCEPT ![1].done = TRUE]
    /\ UNCHANGED <<cync_rooms, cync_switches, options, entities>>

\* the host replays the color temperature it reads from the entity's state
\* (a scene restore): turn_on(color_temp_kelvin = entity.color_temp_kelvin)
HostReplayColorTemp(id) ==
    /\ id \in DOMAIN entities
    /\ entities[id].status = "added"
    /\ service_call = <<>>
    /\ color_temp_kelvin(entities[id]) # None
    /\ service_call' = << [service |-> "turn_on", entity |-> id,
                           kwargs |-> (ATTR_COLOR_TEMP_KELVIN :>
                                         color_temp_kelvin(entities[id])[1]),
                           done |-> FALSE] >>
    /\ UNCHANGED <<cync_rooms, cync_switches, options, entities, calls>>

---------------------------------------------------------------------------
\* The hub refreshes a device's state; one field changes per status update.

StatusUpdates(dev) ==
    {[dev EXCEPT !.power_state = p] : p \in BOOLEAN}
    \cup {[dev EXCEPT !.brightness = v] : v \in LevelSamples}
    \cup {[dev EXCEPT !.color_temp = v] : v \in LevelSamples}
    \cup {[dev EXCEPT !.rgb = v] : v \in RgbStates}
    \cup {[dev EXCEPT !.support_rgb = f] : f \in BOOLEAN}
    \cup {[dev EXCEPT !.support_color_temp = f] : f \in BOOLEAN}
    \cup {[dev EXCEPT !.support_brightness = f] : f \in BOOLEAN}

HubUpdateRoom(room) ==
    /\ room \in DOMAIN cync_rooms
    /\ \E s \in StatusUpdates(cync_rooms[room]) :
          cync_rooms' = [cync_rooms EXCEPT ![room] = s]
    /\ UNCHANGED <<cync_switches, options, entities, service_call, calls>>

HubUpdateSwitch(switch_id) ==
    /\ switch_id \in DOMAIN cync_switches
    /\ \E s \in StatusUpdates(cync_switches[switch_id]) :
          cync_switches' = [cync_switches EXCEPT ![switch_id] = s]
    /\ UNCHANGED <<cync_rooms, options, entities, service_call, calls>>

---------------------------------------------------------------------------
\* Inputs of the host.

AllOptions ==
    [rooms : SUBSET Range(RoomKeys), subgroups : SUBSET Range(RoomKeys),
     switches : SUBSET Range(SwitchKeys)]

EverythingSelected ==
    [rooms |-> Range(RoomKeys), subgroups |-> {}, switches |-> Range(SwitchKeys)]

RGBInputs == {<<255, 128, 0>>}
BrightnessInputs == 0..HostScaleMax
BrightnessSamples == {0, 128, HostScaleMax}
KelvinInputs == 0..MaxKelvin
KelvinSamples == {0, 2000, 4250, 6500, MaxKelvin}

NoAttr == [k \in {} |-> 0]
AttrChoices(attr, values) == {NoAttr} \cup {(attr :> v) : v \in values}

\* every subset of the three attributes; the full range of one numeric
\* attribute is paired with samples of the other
KwargsInputs ==
    {rgb @@ bk[1] @@ bk[2] :
        rgb \in AttrChoices(ATTR_RGB_COLOR, RGBInputs),
        bk \in (AttrChoices(ATTR_BRIGHTNESS, BrightnessInputs)
                  \X AttrChoices(ATTR_COLOR_TEMP_KELVIN, KelvinSamples))
               \cup (AttrChoices(ATTR_BRIGHTNESS, BrightnessSamples)
                  \X AttrChoices(ATTR_COLOR_TEMP_KELVIN, KelvinInputs))}

ServiceCalls(ids) ==
    {[service |-> "turn_on", entity |-> id, kwargs |-> kw, done |-> FALSE] :
        id \in ids, kw \in KwargsInputs}
    \cup {[service |-> "turn_off", entity |-> id, kwargs |-> NoAttr,
           done |-> FALSE] : id \in ids}

---------------------------------------------------------------------------
\* Specifications.

\* an adapter the host has constructed and added
Adopted(entity) == [entity EXCEPT !.status = "added"]

\* Platform lifecycle: a hub with one room and one switch, nothing adopted.
Init ==
    /\ cync_rooms = ("r1" :> DefaultRoom)
    /\ \E plug \in BOOLEAN, fan \in BOOLEAN :
          cync_switches = ("s1" :> [DefaultSwitch EXCEPT !.plug = plug, !.fan = fan])
    /\ options \in AllOptions
    /\ entities = <<>>
    /\ service_call = <<>>
    /\ calls = <<>>

Next ==
    \/ async_setup_entry
    \/ \E id \in 1..MaxEntities :
          \/ CyncRoomEntity_async_added_to_hass(id)
          \/ CyncRoomEntity_async_will_remove_from_hass(id)
          \/ CyncSwitchEntity_async_added_to_hass(id)
          \/ CyncSwitchEntity_async_will_remove_from_hass(id)

Spec == Init /\ [][Next]_vars

\* Reads: a hub with a single device, adopted by one adapter constructed
\* from the device's state; the hub then updates the device.
InitView ==
    /\ \/ /\ cync_rooms \in {("r1" :> Device_register(s, 1)) :
                                s \in DeviceStatus(DefaultRoom)}
          /\ cync_switches = <<>>
          /\ entities = << Adopted(CyncRoomEntity_init("r1")) >>
       \/ /\ cync_rooms = <<>>
          /\ cync_switches \in {("s1" :> Device_register(s, 1)) :
                                   s \in DeviceStatus(DefaultSwitch)}
          /\ entities = << Adopted(CyncSwitchEntity_init("s1")) >>
    /\ options = EverythingSelected
    /\ service_call = <<>>
    /\ calls = <<>>

NextView ==
    \/ \E room \in Range(RoomKeys) : HubUpdateRoom(room)
    \/ \E switch_id \in Range(SwitchKeys) : HubUpdateSwitch(switch_id)

SpecView == InitView /\ [][NextView]_vars

\* Commands: both devices adopted, one service call dispatched.
InitAdopted ==
    /\ cync_rooms = ("r1" :> Device_register(DefaultRoom, 1))
    /\ cync_switches = ("s1" :> Device_register(DefaultSwitch, 2))
    /\ options = EverythingSelected
    /\ entities = << Adopted(CyncRoomEntity_init("r1")),
                     Adopted(CyncSwitchEntity_init("s1")) >>
    /\ calls = <<>>

InitCmd ==
    /\ InitAdopted
    /\ service_call \in {<<c>> : c \in ServiceCalls({1, 2})}

NextCmd ==
    \E id \in {1, 2} :
        \/ CyncRoomEntity_async_turn_on(id)
        \/ CyncRoomEntity_async_turn_off(id)
        \/ CyncSwitchEntity_async_turn_on(id)
        \/ CyncSwitchEntity_async_turn_off(id)

SpecCmd == InitCmd /\ [][NextCmd]_vars

\* Color-temperature round trip: both devices adopted, at any device-scale
\* color temperature; the host replays what it reads.
InitRoundTrip ==
    /\ \E ct \in 0..DeviceScaleMax, f \in BOOLEAN :
          cync_rooms = ("r1" :> [Device_register(DefaultRoom, 1) EXCEPT
                                    !.color_temp = ct, !.support_color_temp = f])
    /\ \E ct \in 0..DeviceScaleMax, f \in BOOLEAN :
          cync_switches = ("s1" :> [Device_register(DefaultSwitch, 2) EXCEPT
                                    !.color_temp = ct, !.support_color_temp = f])
    /\ options = EverythingSelected
    /\ entities = << Adopted(CyncRoomEntity_init("r1")),
                     Adopted(CyncSwitchEntity_init("s1")) >>
    /\ service_call = <<>>
    /\ calls = <<>>

NextRoundTrip ==
    \E id \in {1, 2} :
        \/ HostReplayColorTemp(id)
        \/ CyncRoomEntity_async_turn_on(id)
        \/ CyncSwitchEntity_async_turn_on(id)

SpecRoundTrip == InitRoundTrip /\ [][NextRoundTrip]_vars

---------------------------------------------------------------------------
\* Properties.

Abs(x) == IF x < 0 THEN -x ELSE x

\* the service call has been handled by the adapter
Handled(service) ==
    /\ Len(service_call) = 1
    /\ service_call[1].done
    /\ service_call[1].service = service

Supplied(attr) == attr \in DOMAIN service_call[1].kwargs

\* v is the integer nearest to num / den
Nearest(v, num, den) == 2 * Abs(num - den * v) <= den

\* the clamped Kelvin-to-percent conversion, stated without the code
IsClampedPercent(v, K) ==
    /\ v \in 0..100
    /\ K <= 2000 => v = 0
    /\ K >= 6500 => v = 100
    /\ (K >= 2000 /\ K <= 6500) => Nearest(v, 100 * (K - 2000), 4500)

\* C1: for both adapters, async_turn_on with a color-temperature target of
\* K Kelvin sends the device round(100*(K-2000)/4500) clamped to [0,100]:
\* an integer in 0..100, 0 for every K <= 2000 and 100 for every K >= 6500.
C1_KelvinToPercentSent ==
    (Handled("turn_on") /\ Supplied(ATTR_COLOR_TEMP_KELVIN)) =>
        /\ Len(calls) = 1
        /\ calls[1].args[3] # None
        /\ IsClampedPercent(calls[1].args[3][1],
                            service_call[1].kwargs[ATTR_COLOR_TEMP_KELVIN])

C1_Witness ==
    /\ Handled("turn_on")
    /\ Supplied(ATTR_COLOR_TEMP_KELVIN)
    /\ service_call[1].kwargs[ATTR_COLOR_TEMP_KELVIN] = 9000
    /\ service_call[1].entity = 2
    /\ calls[1].args[3] = Some(100)

\* C2: brightness round trip: for every host-scale brightness b in 0..255,
\* the value the brightness property reads back, round(v*255/100), from the
\* value v that async_turn_on sends to the device for b is within 1 of b.
C2_BrightnessRoundTrip ==
    (Handled("turn_on") /\ Supplied(ATTR_BRIGHTNESS)) =>
        LET b == service_call[1].kwargs[ATTR_BRIGHTNESS]
            v == calls[1].args[2][1]
        IN  Abs(Round(v * 255, 100) - b) <= 1

\* the active mode, stated by cases on the device's fields
ExpectedColorMode(dev) ==
    LET active == IF "active" \in DOMAIN dev.rgb THEN dev.rgb["active"] ELSE FALSE
    IN  CASE ~dev.power_state -> None
          [] dev.power_state /\ dev.support_color_temp /\ dev.support_rgb /\ active
                -> Some(ColorMode_RGB)
          [] dev.power_state /\ dev.support_color_temp /\ ~(dev.support_rgb /\ active)
                -> Some(ColorMode_COLOR_TEMP)
          [] dev.power_state /\ ~dev.support_color_temp /\ dev.support_brightness
                -> Some(ColorMode_BRIGHTNESS)
          [] dev.power_state /\ ~dev.support_color_temp /\ ~dev.support_brightness
                -> Some(ColorMode_ONOFF)

\* the supported modes for the 8 combinations of the capability flags
ExpectedModes(support_rgb, support_color_temp, support_brightness) ==
    CASE  support_rgb /\  support_color_temp -> {ColorMode_RGB, ColorMode_COLOR_TEMP}
      []  support_rgb /\ ~support_color_temp -> {ColorMode_RGB}
      [] ~support_rgb /\  support_color_temp -> {ColorMode_COLOR_TEMP}
      [] ~support_rgb /\ ~support_color_temp /\  support_brightness
            -> {ColorMode_BRIGHTNESS}
      [] ~support_rgb /\ ~support_color_temp /\ ~support_brightness
            -> {ColorMode_ONOFF}

ModesOfDevice(dev) ==
    ExpectedModes(dev.support_rgb, dev.support_color_temp, dev.support_brightness)

\* the properties other than supported_color_modes project the device's
\* current fields
ReadsProjectDevice(self) ==
    LET dev == Backing(self)
    IN  /\ is_on(self) = dev.power_state
        /\ Nearest(brightness(self), 255 * dev.brightness, 100)
        /\ (2 * (255 * dev.brightness % 100) = 100 => brightness(self) % 2 = 0)
        /\ color_temp_kelvin(self) =
              (IF dev.support_color_temp THEN Some(2000 + 45 * dev.color_temp)
               ELSE None)
        /\ rgb_color(self) =
              (IF dev.support_rgb
               THEN Some(<<dev.rgb["r"], dev.rgb["g"], dev.rgb["b"]>>) ELSE None)
        /\ color_mode(self) = ExpectedColorMode(dev)

\* C3 as stated: every adapter property, supported_color_modes included,
\* equals the value computed from the device's current fields.
C3_AllReadsFollowDevice ==
    \A id \in DOMAIN entities :
        /\ ReadsProjectDevice(entities[id])
        /\ supported_color_modes(entities[id]) = ModesOfDevice(Backing(entities[id]))

\* C3 amended: every adapter property other than supported_color_modes
\* equals the value computed from the device's current fields after any
\* sequence of device changes; supported_color_modes is the set computed
\* from the capability flags when the adapter was constructed and does not
\* follow later changes.
C3_ReadsFollowDeviceModesFixed ==
    /\ \A id \in DOMAIN entities :
          supported_color_modes(entities[id]) = ModesOfDevice(Backing(entities[id]))
    /\ [](\A id \in DOMAIN entities : ReadsProjectDevice(entities[id]))
    /\ [][\A id \in DOMAIN entities :
            supported_color_modes(entities[id])' = supported_color_modes(entities[id])]_vars

C3_Witness ==
    \E id \in DOMAIN entities :
        /\ supported_color_modes(entities[id]) = {ColorMode_ONOFF}
        /\ Backing(entities[id]).support_color_temp
        /\ Backing(entities[id]).brightness = 50
        /\ brightness(entities[id]) = 128
        /\ is_on(entities[id])

\* the devices of the hub, as <<kind, key>>
Devices ==
    {<<"room", k>> : k \in DOMAIN cync_rooms}
    \cup {<<"switch", k>> : k \in DOMAIN cync_switches}

DeviceOf(self) ==
    IF IsRoomEntity(self) THEN <<"room", self.room>>
    ELSE <<"switch", self.cync_switch>>

Callback(d) ==
    IF d[1] = "room" THEN cync_rooms[d[2]].update_callback
    ELSE cync_switches[d[2]].update_callback

\* the device is one the configuration selects for a light entity
Selected(d) ==
    IF d[1] = "room"
    THEN d[2] \in options.rooms \cup options.subgroups
    ELSE /\ d[2] \in options.switches
         /\ ~cync_switches[d[2]].plug
         /\ ~cync_switches[d[2]].fan

\* C4: the adoption lifecycle: async_setup_entry creates an adapter for a
\* selected device only when the device has no registered callback; after
\* the adapter's async_added_to_hass the device holds the adapter's
\* callback, so async_setup_entry creates no further adapter for it; after
\* the adapter's async_will_remove_from_hass the callback is cleared and
\* async_setup_entry creates an adapter for the device again.
C4_AdoptionLifecycle ==
    /\ [][\A id \in DOMAIN entities' :
            /\ id \notin DOMAIN entities =>
                  /\ Callback(DeviceOf(entities'[id])) = None
                  /\ Selected(DeviceOf(entities'[id]))
            /\ (id \in DOMAIN entities /\ entities[id].status = "created"
                /\ entities'[id].status = "added") =>
                  Callback(DeviceOf(entities[id]))' = Some(id)
            /\ (id \in DOMAIN entities /\ entities[id].status = "added"
                /\ entities'[id].status = "removed") =>
                  Callback(DeviceOf(entities[id]))' = None]_vars
    /\ [](\A d \in Devices :
            (Callback(d) = None /\ Selected(d) /\ Len(entities) + 2 <= MaxEntities) =>
                ENABLED (async_setup_entry
                         /\ \E id \in DOMAIN entities' :
                               /\ id \notin DOMAIN entities
                               /\ DeviceOf(entities'[id]) = d))

\* an adapter was removed and a later adapter has adopted the same device
C4_Witness ==
    \E a \in DOMAIN entities, b \in DOMAIN entities :
        /\ a < b
        /\ SameDevice(entities[a], entities[b])
        /\ entities[a].status = "removed"
        /\ entities[b].status = "added"
        /\ Callback(DeviceOf(entities[b])) = Some(b)
        /\ \A c \in DOMAIN entities :
              SameDevice(entities[a], entities[c]) => c \in {a, b}

\* C5: capability resolution is a function of the three flags: RGB if
\* support_rgb, COLOR_TEMP if support_color_temp, BRIGHTNESS only when
\* neither and support_brightness, ONOFF only when nothing else; the set is
\* never empty and BRIGHTNESS and ONOFF appear only as the sole element.
C5_CapabilityResolution ==
    /\ \A k \in DOMAIN cync_rooms :
          LET m == CyncRoomEntity_get_supported_color_modes(cync_rooms[k])
          IN  /\ m = ModesOfDevice(cync_rooms[k])
              /\ m # {}
              /\ ColorMode_BRIGHTNESS \in m => m = {ColorMode_BRIGHTNESS}
              /\ ColorMode_ONOFF \in m => m = {ColorMode_ONOFF}
    /\ \A k \in DOMAIN cync_switches :
          LET m == CyncSwitchEntity_get_supported_color_modes(cync_switches[k])
          IN  /\ m = ModesOfDevice(cync_switches[k])
              /\ m # {}
              /\ ColorMode_BRIGHTNESS \in m => m = {ColorMode_BRIGHTNESS}
              /\ ColorMode_ONOFF \in m => m = {ColorMode_ONOFF}

\* an adapter constructed on a brightness-only device holds {BRIGHTNESS}
C5_Witness ==
    \E id \in DOMAIN entities :
        /\ ~Backing(entities[id]).support_rgb
        /\ ~Backing(entities[id]).support_color_temp
        /\ Backing(entities[id]).support_brightness
        /\ entities[id].attr_supported_color_modes = {ColorMode_BRIGHTNESS}

\* C6: color_mode is null whenever is_on is false; otherwise, if color temp
\* is supported, RGB exactly when support_rgb and rgb.active (missing reads
\* as false), else COLOR_TEMP; otherwise BRIGHTNESS if supported, else ONOFF.
C6_ColorModeResolution ==
    \A id \in DOMAIN entities :
        color_mode(entities[id]) = ExpectedColorMode(Backing(entities[id]))

C6_Witness ==
    \E id \in DOMAIN entities :
        /\ IsRoomEntity(entities[id])
        /\ Backing(entities[id]).power_state
        /\ Backing(entities[id]).support_color_temp
        /\ Backing(entities[id]).support_rgb
        /\ "active" \notin DOMAIN Backing(entities[id]).rgb
        /\ color_mode(entities[id]) = Some(ColorMode_COLOR_TEMP)

\* C7: for every subset of {rgb_color, brightness, color_temp_kelvin}
\* supplied, async_turn_on makes exactly one call device.turn_on(rgb,
\* brightness, ct_percent): absent attributes are None, rgb and brightness
\* pass through unchanged, ct_percent is the clamped conversion when
\* color_temp_kelvin is supplied; async_turn_off makes exactly one call
\* device.turn_off() without arguments.
C7_OneDeviceCall ==
    /\ (Len(service_call) = 1 /\ ~service_call[1].done) => calls = <<>>
    /\ Handled("turn_on") =>
          LET kw == service_call[1].kwargs
          IN  /\ Len(calls) = 1
              /\ calls[1].target = DeviceOf(entities[service_call[1].entity])
              /\ calls[1].method = "turn_on"
              /\ Len(calls[1].args) = 3
              /\ calls[1].args[1] =
                    (IF Supplied(ATTR_RGB_COLOR) THEN Some(kw[ATTR_RGB_COLOR]) ELSE None)
              /\ calls[1].args[2] =
                    (IF Supplied(ATTR_BRIGHTNESS) THEN Some(kw[ATTR_BRIGHTNESS]) ELSE None)
              /\ ~Supplied(ATTR_COLOR_TEMP_KELVIN) => calls[1].args[3] = None
              /\ Supplied(ATTR_COLOR_TEMP_KELVIN) =>
                    /\ calls[1].args[3] # None
                    /\ IsClampedPercent(calls[1].args[3][1], kw[ATTR_COLOR_TEMP_KELVIN])
    /\ Handled("turn_off") =>
          /\ Len(calls) = 1
          /\ calls[1].target = DeviceOf(entities[service_call[1].entity])
          /\ calls[1].method = "turn_off"
          /\ calls[1].args = <<>>

C7_Witness ==
    /\ Handled("turn_on")
    /\ DOMAIN service_call[1].kwargs = {ATTR_BRIGHTNESS}
    /\ service_call[1].entity = 1
    /\ calls = << [target |-> <<"room", "r1">>, method |-> "turn_on",
                   args |-> <<None, Some(200), None>>] >>

\* C8: for every device percent p in 0..100, the Kelvin value read,
\* round(2000 + 4500*(p/100)), lies in [2000, 6500], and converting it back
\* with _kelvin_to_percent yields a value within 1 of p.
C8_ColorTempRoundTrip ==
    /\ \A id \in DOMAIN entities :
          color_temp_kelvin(entities[id]) # None =>
              color_temp_kelvin(entities[id])[1] \in 2000..6500
    /\ Handled("turn_on") =>
          LET p == Backing(entities[service_call[1].entity]).color_temp
          IN  /\ service_call[1].kwargs[ATTR_COLOR_TEMP_KELVIN] \in 2000..6500
              /\ Len(calls) = 1
              /\ calls[1].args[3] # None
              /\ Abs(calls[1].args[3][1] - p) <= 1

C8_Witness ==
    /\ Handled("turn_on")
    /\ service_call[1].entity = 1
    /\ cync_rooms["r1"].color_temp = 37
    /\ service_call[1].kwargs[ATTR_COLOR_TEMP_KELVIN] = 3665
    /\ calls[1].args[3] = Some(37)

\* C9: whenever the light is on, the color_mode an adapter reports is a
\* member of the adapter's supported_color_modes, for every combination of
\* the capability flags and of rgb.active.
C9_ColorModeIsSupported ==
    \A id \in DOMAIN entities :
        is_on(entities[id]) =>
            color_mode(entities[id])[1] \in supported_color_modes(entities[id])

\* C10: under any interleaving of async_setup_entry with the adapters'
\* async_added_to_hass and async_will_remove_from_hass, at most one adapter
\* that has been created and not yet removed exists per backing device.
C10_OneLiveAdapterPerDevice ==
    \A a \in DOMAIN entities, b \in DOMAIN entities :
        (/\ entities[a].status # "removed"
         /\ entities[b].status # "removed"
         /\ SameDevice(entities[a], entities[b])) => a = b

===========================================================================
